---- MODULE Spec2Model ----
(***************************************************************************)
(* The ledger of app.py: a JSON file holding every account, read whole by  *)
(* load_data and rewritten whole by save_data, and the request handlers    *)
(* register, upgrade_tier, deposit, withdraw, transfer and pay_bills.      *)
(* Flask serves requests on concurrent threads and the handlers take no    *)
(* lock, so a handler is two steps on the shared file: its load_data and,  *)
(* if it gets that far, its save_data. Everything between the two works on *)
(* the handler's private copy.                                             *)
(*                                                                         *)
(* Abstractions. A calendar date is a day number (the code only compares   *)
(* formatted dates for equality). An account number and a reference are    *)
(* the number drawn by                                                     *)
(* random.randint, taken from a small set so that two draws can coincide.  *)
(* The fields pin, account_type and status are written once by register    *)
(* and never read by a ledger operation; they are left out. An account's   *)
(* name is fixed by its username. An amount is an integer or the float     *)
(* NaN, which float() accepts; fractions and infinities are not modelled.  *)
(* Money is counted in units of 1,000,000 (TLC's integers are 32 bits      *)
(* wide and the Tier 3 limit is 9 * 10^12): the code only adds, subtracts  *)
(* and compares amounts, so the unit changes no outcome.                   *)
(* save_data is one step and the file is always readable: a load_data      *)
(* that meets a half-written file is not modelled. The read-only routes    *)
(* receipt and resolve_account are one step each, their load_data.         *)
(***************************************************************************)
EXTENDS Integers, Sequences, FiniteSets

\* ------------------------------------------------------------- configuration

Tier1Limit == 9

Tier2Limit == 9000

Tier3Limit == 9000000

\* TIER_LIMITS.get(tier, 9000000), in units of 1,000,000
TIER_LIMITS(tier) ==
    CASE tier = "Tier 1" -> Tier1Limit
      [] tier = "Tier 2" -> Tier2Limit
      [] tier = "Tier 3" -> Tier3Limit
      [] OTHER -> Tier1Limit

\* ------------------------------------------------------------------- bounds

\* Requests started in one behaviour.
MaxOps == 2

\* Calendar days a behaviour spans.
MaxDay == 2

Procs == {1, 2}

Users == {"a", "b"}

\* Outcomes of random.randint in register and in generate_ref.
AccNos == {1, 2}

Refs == {1, 2}

\* An account number no registration draws.
NoSuchAcc == 3

\* ------------------------------------------------------------------ amounts

\* float("nan"): every comparison with it is false, every sum with it is NaN.
NaN == -1000000000

IntAmounts == {-1, 0, Tier1Limit}

FloatAmounts == IntAmounts \cup {NaN}

FAdd(x, y) == IF x = NaN \/ y = NaN THEN NaN ELSE x + y

FSub(x, y) == IF x = NaN \/ y = NaN THEN NaN ELSE x - y

FGt(x, y) == x # NaN /\ y # NaN /\ x > y

FLt(x, y) == x # NaN /\ y # NaN /\ x < y

\* ------------------------------------------------------- the customers dict

\* A dict is the sequence of its values in insertion order, each carrying its
\* key as "username". json.load and json.dump keep that order.
EmptyStore == << >>

Has(customers, username) == \E i \in DOMAIN customers : customers[i].username = username

IndexOf(customers, username) == CHOOSE i \in DOMAIN customers : customers[i].username = username

Get(customers, username) == customers[IndexOf(customers, username)]

NameOf(username) == username

\* A transaction record. Its "date" is a timestamp no handler reads; it is
\* left out.
Txn(desc, party, type, amount, ref) ==
    [desc |-> desc, party |-> party, type |-> type,
     amount |-> amount, ref |-> ref, status |-> "Success"]

\* generate_ref: a random number, not compared with any reference in use.
generate_ref(n) == n

\* check_daily_limit refusing a transfer that reaches the limit exactly.
check_daily_limit_strict(user, amount, day) ==
    LET u1 == IF user.last_txn_date # day
              THEN [user EXCEPT !.daily_used = 0, !.last_txn_date = day]
              ELSE user
        limit == TIER_LIMITS(u1.tier)
    IN  [user |-> u1,
         allowed |-> FLt(FAdd(u1.daily_used, amount), limit),
         limit |-> limit]

\* check_daily_limit moving the date on a new day without clearing daily_used.
check_daily_limit_no_reset(user, amount, day) ==
    LET u1 == [user EXCEPT !.last_txn_date = day]
        limit == TIER_LIMITS(u1.tier)
    IN  [user |-> u1,
         allowed |-> ~FGt(FAdd(u1.daily_used, amount), limit),
         limit |-> limit]

\* check_daily_limit mutates the user it is given and returns (allowed, limit).
check_daily_limit(user, amount, day) ==
    LET u1 == IF user.last_txn_date # day
              THEN [user EXCEPT !.daily_used = 0, !.last_txn_date = day]
              ELSE user
        limit == TIER_LIMITS(u1.tier)
    IN  [user |-> u1,
         allowed |-> ~FGt(FAdd(u1.daily_used, amount), limit),
         limit |-> limit]

\* What a handler does with its copy: whether it reaches save_data, the copy
\* as it then is, and the response (ok: the operation ran; rejected: an
\* error is flashed; ignored: nothing is done and nothing is said; expired:
\* the session's user is not in the copy).
Out(save, data, resp) == [save |-> save, data |-> data, resp |-> resp]

register(customers, username, accno, day) ==
    IF Has(customers, username)
    THEN Out(FALSE, customers, "rejected")
    ELSE Out(TRUE,
             Append(customers,
                    [username |-> username, name |-> NameOf(username),
                     account_no |-> accno, tier |-> "Tier 1", daily_used |-> 0,
                     last_txn_date |-> day, balance |-> 0,
                     transactions |-> << >>]),
             "ok")

upgrade_tier(customers, username) ==
    IF ~Has(customers, username) THEN Out(FALSE, customers, "expired")
    ELSE LET i == IndexOf(customers, username)
             t == customers[i].tier
         IN  IF t = "Tier 1"
             THEN Out(TRUE, [customers EXCEPT ![i].tier = "Tier 2"], "ok")
             ELSE IF t = "Tier 2"
             THEN Out(TRUE, [customers EXCEPT ![i].tier = "Tier 3"], "ok")
             ELSE Out(TRUE, customers, "ignored")

deposit(customers, username, amount, ref) ==
    IF ~Has(customers, username) THEN Out(FALSE, customers, "expired")
    ELSE LET i == IndexOf(customers, username)
             user == customers[i]
         IN  IF amount > 0
             THEN Out(TRUE,
                      [customers EXCEPT ![i] =
                          [user EXCEPT
                             !.balance = FAdd(user.balance, amount),
                             !.transactions =
                                 <<Txn("Cash Deposit", "", "Credit", amount, ref)>>
                                 \o user.transactions]],
                      "ok")
             ELSE Out(FALSE, customers, "ignored")

withdraw(customers, username, amount, ref) ==
    IF ~Has(customers, username) THEN Out(FALSE, customers, "expired")
    ELSE LET i == IndexOf(customers, username)
             user == customers[i]
         IN  IF FGt(amount, user.balance) THEN Out(FALSE, customers, "rejected")
             ELSE IF FGt(amount, 0)
             THEN Out(TRUE,
                      [customers EXCEPT ![i] =
                          [user EXCEPT
                             !.balance = FSub(user.balance, amount),
                             !.transactions =
                                 <<Txn("Cash Withdrawal", "", "Debit", amount, ref)>>
                                 \o user.transactions]],
                      "ok")
             ELSE Out(FALSE, customers, "ignored")

\* The loop of transfer over customers.items(): the first account, in
\* insertion order, whose account_no is the one asked for; 0 when none is.
FindRecipient(customers, acc) ==
    IF \E i \in DOMAIN customers : customers[i].account_no = acc
    THEN CHOOSE i \in DOMAIN customers :
            /\ customers[i].account_no = acc
            /\ \A j \in DOMAIN customers : customers[j].account_no = acc => i <= j
    ELSE 0

\* Step 4 of transfer leaving the recipient's history as it was.
ExecuteTransfer_no_credit_record(customers, s, r, amount, ref) ==
    LET sender == customers[s]
        recipient == customers[r]
    IN  [customers EXCEPT
           ![s] = [sender EXCEPT
                     !.balance = FSub(sender.balance, amount),
                     !.daily_used = FAdd(sender.daily_used, amount),
                     !.transactions =
                         <<Txn("Transfer to", recipient.name, "Debit", amount, ref)>>
                         \o sender.transactions],
           ![r] = [recipient EXCEPT !.balance = FAdd(recipient.balance, amount)]]

\* Step 4 of transfer, on a sender at s (already passed through
\* check_daily_limit) and a recipient at r # s.
ExecuteTransfer(customers, s, r, amount, ref) ==
    LET sender == customers[s]
        recipient == customers[r]
    IN  [customers EXCEPT
           ![s] = [sender EXCEPT
                     !.balance = FSub(sender.balance, amount),
                     !.daily_used = FAdd(sender.daily_used, amount),
                     !.transactions =
                         <<Txn("Transfer to", recipient.name, "Debit", amount, ref)>>
                         \o sender.transactions],
           ![r] = [recipient EXCEPT
                     !.balance = FAdd(recipient.balance, amount),
                     !.transactions =
                         <<Txn("Received from", sender.name, "Credit", amount, ref)>>
                         \o recipient.transactions]]

transfer(customers, username, amount, acc, ref, day) ==
    IF ~Has(customers, username) THEN Out(FALSE, customers, "expired")
    ELSE LET s == IndexOf(customers, username)
             chk == check_daily_limit(customers[s], amount, day)
             checked == [customers EXCEPT ![s] = chk.user]
             r == FindRecipient(checked, acc)
         IN  IF ~chk.allowed \/ FLt(checked[s].balance, amount)
             THEN Out(FALSE, checked, "rejected")
             ELSE IF r = 0 THEN Out(FALSE, checked, "rejected")
             ELSE IF r = s THEN Out(FALSE, checked, "rejected")
             ELSE Out(TRUE, ExecuteTransfer(checked, s, r, amount, generate_ref(ref)), "ok")

\* pay_bills counting the payment against the daily limit.
pay_bills_capped(customers, username, amount, ref) ==
    IF ~Has(customers, username) THEN Out(FALSE, customers, "expired")
    ELSE LET i == IndexOf(customers, username)
             user == customers[i]
         IN  IF \/ FLt(user.balance, amount)
                \/ FGt(FAdd(user.daily_used, amount), TIER_LIMITS(user.tier))
             THEN Out(FALSE, customers, "rejected")
             ELSE Out(TRUE,
                      [customers EXCEPT ![i] =
                          [user EXCEPT
                             !.balance = FSub(user.balance, amount),
                             !.transactions =
                                 <<Txn("Bill", "", "Debit", amount, ref)>>
                                 \o user.transactions]],
                      "ok")

pay_bills(customers, username, amount, ref) ==
    IF ~Has(customers, username) THEN Out(FALSE, customers, "expired")
    ELSE LET i == IndexOf(customers, username)
             user == customers[i]
         IN  IF FLt(user.balance, amount) THEN Out(FALSE, customers, "rejected")
             ELSE Out(TRUE,
                      [customers EXCEPT ![i] =
                          [user EXCEPT
                             !.balance = FSub(user.balance, amount),
                             !.transactions =
                                 <<Txn("Bill", "", "Debit", amount, ref)>>
                                 \o user.transactions]],
                      "ok")

\* What receipt answers: the page, and the record and the user the receipt
\* template is given, if any.
Page(page, found, user) == [page |-> page, found |-> found, user |-> user]

\* receipt with a side effect: the record looked up is stamped in the store.
receipt_stamping(customers, username, ref) ==
    IF ~Has(customers, username) THEN Out(FALSE, customers, Page("login", << >>, << >>))
    ELSE LET i == IndexOf(customers, username)
             user == customers[i]
             hits == {k \in DOMAIN user.transactions : user.transactions[k].ref = ref}
         IN  IF hits = {} THEN Out(FALSE, customers, Page("dashboard", << >>, << >>))
             ELSE LET k == CHOOSE k \in hits : \A j \in hits : k <= j
                  IN  Out(TRUE,
                          [customers EXCEPT ![i].transactions[k].status = "Viewed"],
                          Page("receipt", <<user.transactions[k]>>, <<user>>))

\* receipt: the first record of the session's user carrying the reference.
receipt(customers, username, ref) ==
    IF ~Has(customers, username) THEN Out(FALSE, customers, Page("login", << >>, << >>))
    ELSE LET user == Get(customers, username)
             hits == {k \in DOMAIN user.transactions : user.transactions[k].ref = ref}
         IN  IF hits = {} THEN Out(FALSE, customers, Page("dashboard", << >>, << >>))
             ELSE LET k == CHOOSE k \in hits : \A j \in hits : k <= j
                  IN  Out(FALSE, customers,
                          Page("receipt", <<user.transactions[k]>>, <<user>>))

\* resolve_account: the name of the first account, in insertion order, with
\* the account number.
resolve_account(customers, acc) ==
    LET i == FindRecipient(customers, acc)
    IN  IF i # 0
        THEN Out(FALSE, customers, [status |-> "success", account_name |-> customers[i].name])
        ELSE Out(FALSE, customers, [status |-> "error", account_name |-> ""])

\* ----------------------------------------------------------------- requests

Req(op, user, amount, acc) == [op |-> op, user |-> user, amount |-> amount, acc |-> acc]

NoReq == Req("none", "", 0, 0)

TransferRequests(F) ==
    {Req("transfer", x[1], x[2], x[3]) : x \in Users \X F \X (AccNos \cup {NoSuchAcc})}

WithdrawRequests(F) == {Req("withdraw", u, a, 0) : u \in Users, a \in F}

\* The requests a client can send, with the amounts float() yields drawn
\* from F. deposit parses its amount with int(), which refuses "nan".
Requests(F) ==
    {Req("register", u, 0, 0) : u \in Users}
    \cup {Req("upgrade_tier", u, 0, 0) : u \in Users}
    \cup {Req("deposit", u, a, 0) : u \in Users, a \in IntAmounts}
    \cup WithdrawRequests(F)
    \cup {Req("pay_bills", u, a, 0) : u \in Users, a \in F}
    \cup TransferRequests(F)

\* The handler of request r on the copy customers, with n the number
\* random.randint returns if the handler draws one.
Handle(r, customers, n, day) ==
    CASE r.op = "register" -> register(customers, r.user, n, day)
      [] r.op = "upgrade_tier" -> upgrade_tier(customers, r.user)
      [] r.op = "deposit" -> deposit(customers, r.user, r.amount, generate_ref(n))
      [] r.op = "withdraw" -> withdraw(customers, r.user, r.amount, generate_ref(n))
      [] r.op = "pay_bills" -> pay_bills(customers, r.user, r.amount, generate_ref(n))
      [] r.op = "transfer" -> transfer(customers, r.user, r.amount, r.acc, n, day)
      [] r.op = "receipt" -> receipt(customers, r.user, r.acc)
      [] r.op = "resolve_account" -> resolve_account(customers, r.acc)

AllRequests == Requests(FloatAmounts)

IntRequests == Requests(IntAmounts)

Draws(r) == IF r.op = "register" THEN AccNos ELSE Refs

\* A reference no record carries.
NoSuchRef == 3

\* The read-only requests: /receipt/<ref> (the reference is in acc) and
\* /api/resolve_account.
ReadRequests ==
    {Req("receipt", u, 0, n) : u \in Users, n \in Refs \cup {NoSuchRef}}
    \cup {Req("resolve_account", "", 0, acc) : acc \in AccNos \cup {NoSuchAcc}}

\* -------------------------------------------------------------------- state

VARIABLES
    file,     \* the content of banking_data.json
    today,    \* datetime.now()'s date
    pc,       \* per request thread: idle, loaded, or (where logged) its last response
    local,    \* per request thread: the dict load_data returned
    ops,      \* requests started so far
    last,     \* history, where it is logged: the request finished last, the
              \* copy it loaded, the day and the response, until the next
              \* request starts
    sent      \* history: per user, the sum of the amounts of the transfers
              \* reported successful today, where it is logged

vars == <<file, today, pc, local, ops, last, sent>>

\* The request's form fields do not depend on the file and nothing reads
\* them before the handler's checks, so they are chosen where the handler
\* uses them, in Finish; a thread in flight holds only what it loaded.

NoLast == [req |-> NoReq, pre |-> EmptyStore, day |-> 0, resp |-> "none"]

\* Files earlier requests left, all on day 1. Funded: a and b registered, a
\* funded by two deposits. Twins: a and b registered, random.randint having
\* drawn the same account number twice.
Funded ==
    LET c1 == register(EmptyStore, "a", 1, 1).data
        c2 == register(c1, "b", 2, 1).data
        c3 == deposit(c2, "a", Tier1Limit, 1).data
    IN  deposit(c3, "a", Tier1Limit, 2).data

Twins ==
    LET c1 == register(EmptyStore, "a", 1, 1).data
    IN  register(c1, "b", 1, 1).data

InitWith(files) ==
    /\ file \in files
    /\ today = 1
    /\ pc = [p \in Procs |-> "idle"]
    /\ local = [p \in Procs |-> EmptyStore]
    /\ ops = 0
    /\ last = NoLast
    /\ sent = [u \in Users |-> 0]

Init == InitWith({EmptyStore, Funded, Twins})

\* A thread takes a request and runs its handler up to and including
\* load_data. The threads are interchangeable: the free thread with the
\* lowest number takes the request.
Load(p) ==
    /\ pc[p] # "loaded"
    /\ \A q \in Procs : q < p => pc[q] = "loaded"
    /\ ops < MaxOps
    /\ pc' = [pc EXCEPT ![p] = "loaded"]
    /\ local' = [local EXCEPT ![p] = file]
    /\ ops' = ops + 1
    /\ last' = NoLast
    /\ UNCHANGED <<file, today, sent>>

\* The rest of the handler of request r, drawing n: the checks and updates
\* on the copy, and save_data if it is reached. The history variables named
\* in log record the request and its response.
FinishWith(p, r, n, log) ==
    /\ pc[p] = "loaded"
    /\ LET out == Handle(r, local[p], n, today)
       IN  /\ file' = IF out.save THEN out.data ELSE file
           /\ pc' = [pc EXCEPT ![p] = IF "resp" \in log THEN out.resp ELSE "idle"]
           /\ last' = IF "last" \in log
                      THEN [req |-> r, pre |-> local[p], day |-> today, resp |-> out.resp]
                      ELSE last
           /\ sent' = IF "sent" \in log /\ r.op = "transfer" /\ out.resp = "ok"
                      THEN [sent EXCEPT ![r.user] = FAdd(@, r.amount)]
                      ELSE sent
    /\ local' = [local EXCEPT ![p] = EmptyStore]
    /\ UNCHANGED <<today, ops>>

Finish(p, R, log) == \E r \in R : \E n \in Draws(r) : FinishWith(p, r, n, log)

\* Midnight passes.
NextDay ==
    /\ today < MaxDay
    /\ today' = today + 1
    /\ sent' = [u \in Users |-> 0]
    /\ UNCHANGED <<file, pc, local, ops, last>>

\* Concurrent requests of every kind.
Next ==
    \/ \E p \in Procs : Load(p)
    \/ \E p \in Procs : Finish(p, AllRequests, {})
    \/ NextDay

Spec == Init /\ [][Next]_vars

\* The same with integer amounts only.
NextInt ==
    \/ \E p \in Procs : Load(p)
    \/ \E p \in Procs : Finish(p, IntRequests, {})
    \/ NextDay

SpecInt == Init /\ [][NextInt]_vars

\* Requests served one at a time (each run in isolation), logged.
Idle == \A p \in Procs : pc[p] # "loaded"

NextSeq ==
    \/ \E p \in Procs : Idle /\ Load(p)
    \/ \E p \in Procs : Finish(p, AllRequests, {"last"})
    \/ NextDay

SpecSeq == Init /\ [][NextSeq]_vars

\* Concurrent transfers and nothing else, on the funded file, with the
\* amounts reported successful summed per sender and day.
AllTransfers == TransferRequests(FloatAmounts)

NextTransfers ==
    \/ \E p \in Procs : Load(p)
    \/ \E p \in Procs : Finish(p, AllTransfers, {"sent"})
    \/ NextDay

SpecTransfers == InitWith({Funded}) /\ [][NextTransfers]_vars

\* One withdraw request sent once per thread, concurrently, and nothing
\* else: last.req is the request and last.pre the file before the first of
\* them; each thread keeps its response.
FundedOnce ==
    LET c1 == register(EmptyStore, "a", 1, 1).data
        c2 == register(c1, "b", 2, 1).data
    IN  deposit(c2, "a", Tier1Limit, 1).data

InitWithdraw ==
    /\ file \in {Funded, FundedOnce}
    /\ today = 1
    /\ pc = [p \in Procs |-> "idle"]
    /\ local = [p \in Procs |-> EmptyStore]
    /\ ops = 0
    /\ \E r \in WithdrawRequests(FloatAmounts) :
          last = [req |-> r, pre |-> file, day |-> 1, resp |-> "none"]
    /\ sent = [u \in Users |-> 0]

LoadOnce(p) ==
    /\ pc[p] = "idle"
    /\ pc' = [pc EXCEPT ![p] = "loaded"]
    /\ local' = [local EXCEPT ![p] = file]
    /\ ops' = ops + 1
    /\ UNCHANGED <<file, today, last, sent>>

NextWithdraw ==
    \/ \E p \in Procs : LoadOnce(p)
    \/ \E p \in Procs : Finish(p, {last.req}, {"resp"})
    \/ NextDay

SpecWithdraw == InitWithdraw /\ [][NextWithdraw]_vars

\* A read-only request, served while no other request is between its
\* load_data and its save_data. load_data is the handler's only access to
\* the file, so the handler is one step; the request and what it answered
\* are logged.
Read(r) ==
    /\ Idle
    /\ LET out == Handle(r, file, 0, today)
       IN  /\ file' = IF out.save THEN out.data ELSE file
           /\ last' = [req |-> r, pre |-> EmptyStore, day |-> 0, resp |-> out.resp]
    /\ UNCHANGED <<today, pc, local, ops, sent>>

\* The requests whose amount, where float() parses one, is the Tier 1 limit.
PlainRequests == Requests({Tier1Limit})

\* Requests served one at a time, with reads between them.
NextRead ==
    \/ \E p \in Procs : Idle /\ Load(p)
    \/ \E p \in Procs : Finish(p, PlainRequests, {"last"})
    \/ \E r \in ReadRequests : Read(r)
    \/ NextDay

SpecRead == Init /\ [][NextRead]_vars

\* Concurrent requests of every kind on a new, empty file.
SpecFresh == InitWith({EmptyStore}) /\ [][Next]_vars

\* ------------------------------------------------------------------ claims

\* Where the stored records are: <<account, place in its history>>.
Positions == UNION {{<<i, j>> : j \in DOMAIN file[i].transactions} : i \in DOMAIN file}

RecordAt(x) == file[x[1]].transactions[x[2]]

RECURSIVE SumBalances(_)
SumBalances(customers) ==
    IF customers = << >> THEN 0
    ELSE FAdd(customers[1].balance, SumBalances(Tail(customers)))

\* C1: whatever integer amounts the requests carry, and however they
\* interleave, no stored balance is negative.
C1_BalanceNonNegative == \A i \in DOMAIN file : file[i].balance >= 0

\* C2: a transfer of amount a that reports success leaves the sender's stored
\* balance a below, and the recipient's a above, what was stored just before
\* the transfer's save_data.
C2_TransferExact ==
    [][\A p \in Procs, r \in AllTransfers, n \in Refs :
          (FinishWith(p, r, n, {}) /\ Handle(r, local[p], n, today).resp = "ok")
          => LET to == local[p][FindRecipient(local[p], r.acc)].username
             IN  /\ Has(file, r.user)
                 /\ Has(file, to)
                 /\ Get(file', r.user).balance = FSub(Get(file, r.user).balance, r.amount)
                 /\ Get(file', to).balance = FAdd(Get(file, to).balance, r.amount)]_vars

\* C3: when the only requests are transfers, the balances stored always sum
\* to what they summed to at the start.
C3_Conservation == SumBalances(file) = SumBalances(Funded)

\* C4: of N concurrent withdrawals of a > 0 from a balance B, at most B \div a
\* report success, and when N >= B \div a the balance left once all have
\* finished is B - a * (B \div a).
C4_Withdrawals ==
    LET u == last.req.user
        a == last.req.amount
        B == Get(last.pre, u).balance
        oks == Cardinality({p \in Procs : pc[p] = "ok"})
    IN  ((\A p \in Procs : pc[p] \notin {"idle", "loaded"}) /\ FGt(a, 0))
        => /\ oks <= B \div a
           /\ Cardinality(Procs) >= B \div a
              => Get(file, u).balance = B - a * (B \div a)

\* The transfer SpecSeq logged last: its sender as loaded and as stored
\* now, and the place of the account its account number resolves to.
LastIsTransfer == last.req.op = "transfer" /\ Has(last.pre, last.req.user)

SenderBefore == Get(last.pre, last.req.user)

SenderAfter == Get(file, last.req.user)

RecipientAt == FindRecipient(last.pre, last.req.acc)

ResolvesToOther ==
    RecipientAt # 0 /\ last.pre[RecipientAt].username # last.req.user

Ledger(user) == <<user.balance, user.daily_used, user.last_txn_date, user.transactions>>

C5_Case ==
    /\ LastIsTransfer
    /\ FGt(last.req.amount, 0)
    /\ ResolvesToOther
    /\ SenderBefore.balance # NaN
    /\ SenderBefore.balance >= last.req.amount
    /\ SenderBefore.last_txn_date = last.day

C5_OverLimit ==
    FGt(FAdd(SenderBefore.daily_used, last.req.amount), TIER_LIMITS(SenderBefore.tier))

C7_Case == LastIsTransfer /\ SenderBefore.last_txn_date # last.day

\* C7: for a sender whose stored last_txn_date is not today the limit check
\* counts daily_used as 0; a transfer that succeeds stores last_txn_date =
\* today and daily_used = the amount, one that is rejected leaves both as
\* stored.
C7_DayRollover ==
    C7_Case =>
       /\ last.resp = "ok" <=>
             /\ ~FGt(FAdd(0, last.req.amount), TIER_LIMITS(SenderBefore.tier))
             /\ ~FLt(SenderBefore.balance, last.req.amount)
             /\ ResolvesToOther
       /\ last.resp = "ok" =>
             /\ SenderAfter.last_txn_date = last.day
             /\ SenderAfter.daily_used = last.req.amount
       /\ last.resp # "ok" =>
             /\ last.resp = "rejected"
             /\ SenderAfter.last_txn_date = SenderBefore.last_txn_date
             /\ SenderAfter.daily_used = SenderBefore.daily_used

C7_Witness ==
    /\ C7_Case
    /\ last.resp = "ok"
    /\ SenderBefore.daily_used = Tier1Limit
    /\ last.req.amount = Tier1Limit

C7_WitnessRejected ==
    /\ C7_Case
    /\ last.resp = "rejected"
    /\ SenderBefore.daily_used # 0

\* C6: on one day, with the sender's tier unchanged, the amounts of the
\* transfers an account is told succeeded never sum to more than
\* TIER_LIMITS[tier], however the transfers interleave.
C6_DailyTotal ==
    \A u \in Users :
        Has(file, u) => ~FGt(sent[u], TIER_LIMITS(Get(file, u).tier))

\* One transfer's two legs: x its Debit in the sender's history, y its
\* Credit in the recipient's.
TransferLegs(x, y) ==
    /\ x[1] # y[1]
    /\ RecordAt(x) = Txn("Transfer to", file[y[1]].name, "Debit", RecordAt(x).amount, RecordAt(x).ref)
    /\ RecordAt(y) = Txn("Received from", file[x[1]].name, "Credit", RecordAt(x).amount, RecordAt(x).ref)

\* C8: two stored records carry the same reference only if they are the
\* Debit leg and the Credit leg of one transfer. (Two records of one history,
\* or two that are not such a pair, were written by different operations.)
C8_ReferencesUnique ==
    \A x, y \in Positions :
        (x # y /\ RecordAt(x).ref = RecordAt(y).ref)
        => (TransferLegs(x, y) \/ TransferLegs(y, x))

\* The requests C9 lists as rejected, on the copy the handler loaded.
C9_Listed(r, customers) ==
    /\ Has(customers, r.user)
    /\ LET user == Get(customers, r.user)
           chk == check_daily_limit(user, r.amount, today)
       IN  \/ r.op \in {"withdraw", "pay_bills"} /\ FGt(r.amount, user.balance)
           \/ r.op = "transfer" /\ (~chk.allowed \/ FLt(user.balance, r.amount))
           \/ r.op = "transfer" /\ FindRecipient(customers, r.acc) = 0
           \/ r.op = "transfer" /\ r.acc = user.account_no

\* C9: a withdraw or pay_bills with amount > balance, a transfer failing the
\* daily-limit or balance check, a transfer to an unknown account number and
\* a transfer to the sender's own account number each leave the file as it
\* was.
C9_RejectedUnchanged ==
    [][\A p \in Procs, r \in AllRequests, n \in Refs :
          (FinishWith(p, r, n, {}) /\ C9_Listed(r, local[p])) => file' = file]_vars

\* How many records of history equal record t.
Copies(history, t) == Cardinality({k \in DOMAIN history : history[k] = t})

\* C10: in every stored state the legs of a transfer are there together or
\* not at all: a sender's history holds a transfer's Debit record as often
\* as the recipient's holds the Credit record with that reference and amount.
C10_LegsTogether ==
    \A i, j \in DOMAIN file :
      \A a \in FloatAmounts, n \in Refs :
        Copies(file[i].transactions, Txn("Transfer to", file[j].name, "Debit", a, n))
        = Copies(file[j].transactions, Txn("Received from", file[i].name, "Credit", a, n))

\* A transfer's legs are stored, beside a record written after them.
C10_Witness ==
    \E x, y \in Positions : TransferLegs(x, y) /\ (x[2] > 1 \/ y[2] > 1)

\* history is what is left of longer after some records at its head.
IsSuffix(history, longer) ==
    /\ Len(history) <= Len(longer)
    /\ \A k \in DOMAIN history :
          history[k] = longer[Len(longer) - Len(history) + k]

\* C11: histories only grow, at the head: across every step that writes the
\* file, what an account's history held before is what its history holds
\* after, below the new records.
C11_AppendOnly ==
    [][\A u \in Users :
          (Has(file, u) /\ Has(file', u))
          => IsSuffix(Get(file, u).transactions, Get(file', u).transactions)]_vars

\* The request SpecSeq logged last was sent by an account of the store.
LastBy(op) == last.req.op = op /\ Has(last.pre, last.req.user)

NonPositive(amount) == amount # NaN /\ amount <= 0

\* C12: a transfer whose amount is <= 0 is rejected and changes no account.
C12_NonPositiveTransfer ==
    (LastBy("transfer") /\ NonPositive(last.req.amount))
    => (last.resp = "rejected" /\ file = last.pre)

\* C13: a pay_bills succeeds only when 0 < amount <= balance; with
\* amount <= 0 it is rejected, the balance stays and no record is added.
C13_PayBillsAmount ==
    LastBy("pay_bills") =>
       /\ last.resp = "ok" =>
             /\ FGt(last.req.amount, 0)
             /\ ~FGt(last.req.amount, SenderBefore.balance)
             /\ SenderBefore.balance # NaN
       /\ NonPositive(last.req.amount) =>
             /\ last.resp = "rejected"
             /\ SenderAfter.balance = SenderBefore.balance
             /\ SenderAfter.transactions = SenderBefore.transactions

\* Python's x <= y on floats.
FLe(x, y) == x # NaN /\ y # NaN /\ x <= y

\* The request logged last added exactly one record of the given type and of
\* the request's amount at the head of its sender's history.
OneRecordAdded(type) ==
    /\ Len(SenderAfter.transactions) = Len(SenderBefore.transactions) + 1
    /\ Tail(SenderAfter.transactions) = SenderBefore.transactions
    /\ Head(SenderAfter.transactions).type = type
    /\ Head(SenderAfter.transactions).amount = last.req.amount

\* C14: alone on an existing account, a deposit changes the file iff
\* amount > 0 and a withdrawal iff 0 < amount <= balance; then the balance
\* moves by the amount and one Credit (Debit) record of the amount is added at
\* the head of the history; otherwise balance and history are as they were.
C14_DepositWithdraw ==
    /\ LastBy("deposit") =>
          /\ file # last.pre <=> last.req.amount > 0
          /\ file # last.pre =>
                /\ SenderAfter.balance = FAdd(SenderBefore.balance, last.req.amount)
                /\ OneRecordAdded("Credit")
    /\ LastBy("withdraw") =>
          /\ file # last.pre <=>
                FGt(last.req.amount, 0) /\ FLe(last.req.amount, SenderBefore.balance)
          /\ file # last.pre =>
                /\ SenderAfter.balance = FSub(SenderBefore.balance, last.req.amount)
                /\ OneRecordAdded("Debit")

Tiers == {"Tier 1", "Tier 2", "Tier 3"}

\* The store the last request loaded, had its sender's daily_used been d and
\* its tier t.
C15_Varied(d, t) ==
    [last.pre EXCEPT ![IndexOf(last.pre, last.req.user)] =
        [@ EXCEPT !.daily_used = d, !.tier = t]]

\* C15: a deposit, withdraw or pay_bills served alone stores the daily_used
\* and last_txn_date it found and answers as it would for any other
\* daily_used and tier; a transfer stores the recipient's daily_used and
\* last_txn_date as it found them.
C15_OnlyTransfersCapped ==
    /\ (LastBy("deposit") \/ LastBy("withdraw") \/ LastBy("pay_bills")) =>
          /\ SenderAfter.daily_used = SenderBefore.daily_used
          /\ SenderAfter.last_txn_date = SenderBefore.last_txn_date
          /\ \A d \in {0, Tier3Limit + 1, NaN}, t \in Tiers, n \in Refs :
                Handle(last.req, C15_Varied(d, t), n, last.day).resp = last.resp
    /\ (LastIsTransfer /\ last.resp = "ok") =>
          LET to == last.pre[RecipientAt]
          IN  /\ Get(file, to.username).daily_used = to.daily_used
              /\ Get(file, to.username).last_txn_date = to.last_txn_date

\* A withdrawal or bill payment of the whole Tier 1 limit goes through for an
\* account that has used the whole limit already.
C15_Witness ==
    /\ LastBy("withdraw") \/ LastBy("pay_bills")
    /\ last.resp = "ok"
    /\ last.req.amount = Tier1Limit
    /\ SenderBefore.daily_used = Tier1Limit
    /\ SenderBefore.tier = "Tier 1"

\* A transfer goes through on a later day than the recipient's last_txn_date.
C15_WitnessRecipient ==
    /\ LastIsTransfer
    /\ last.resp = "ok"
    /\ last.pre[RecipientAt].last_txn_date # last.day

\* C16: receipt and resolve_account never write the file, and a call
\* answers what the call before it answered when that was the same request
\* and nothing was written in between.
C16_ReadOnlyRepeatable ==
    [][\A r \in ReadRequests :
          (last'.req = r /\ Read(r))
          => /\ file' = file
             /\ last.req = r => last'.resp = last.resp]_vars

\* A receipt has been shown, or an account name resolved.
C16_Witness ==
    \/ last.req.op = "receipt" /\ last.resp.page = "receipt"
    \/ last.req.op = "resolve_account" /\ last.resp.status = "success"

\* C17: an account that is in the file stays in the file, whatever requests
\* run and however they overlap.
C17_AccountsStay ==
    [][\A u \in Users : Has(file, u) => Has(file', u)]_vars

\* C18: no two accounts in the file have the same account_no, whatever
\* numbers register draws.
C18_AccountNumbersUnique ==
    \A i, j \in DOMAIN file : i # j => file[i].account_no # file[j].account_no

\* Python's x == y on floats: NaN equals nothing, itself included.
FEq(x, y) == x # NaN /\ y # NaN /\ x = y

\* The sum, as floats, of the amounts of the records of one type.
RECURSIVE SumOf(_, _)
SumOf(history, type) ==
    IF history = << >> THEN 0
    ELSE FAdd(IF Head(history).type = type THEN Head(history).amount ELSE 0,
              SumOf(Tail(history), type))

\* C19: in every stored state each balance equals the sum of the account's
\* Credit records minus the sum of its Debit records.
C19_BalanceIsLedgerSum ==
    \A i \in DOMAIN file :
        FEq(file[i].balance,
            FSub(SumOf(file[i].transactions, "Credit"),
                 SumOf(file[i].transactions, "Debit")))

\* C20: in every stored state each daily_used is <= TIER_LIMITS of the
\* account's tier.
C20_DailyUsedWithinLimit ==
    \A i \in DOMAIN file : FLe(file[i].daily_used, TIER_LIMITS(file[i].tier))

====
